---- MODULE Spec2Model ----
(***************************************************************************)
(* Model of the array_splitter Lambda function of tcd93/sentimental:       *)
(* split_result.rs (Event, Response, function_handler), main.rs (the       *)
(* Lambda entry point), split_result_test.rs (the test-local copy of the   *)
(* handler) and integration_test.rs (JSON in, JSON out).                   *)
(***************************************************************************)
EXTENDS Integers, Sequences, FiniteSets, TLC

(* ------------------------------ bounds --------------------------------- *)
\* Longest input array that is enumerated.
MaxLen == 5
\* Number of invocations that may be in flight together.
NumInv == 2

Invs == 1..NumInv

(* ----------------------------- JSON values ----------------------------- *)
\* serde_json::Value, as far as the payloads need it.
JStr(s) == [kind |-> "string", s |-> s, items |-> <<>>]
JNum == [kind |-> "number", s |-> "", items |-> <<>>]
JObj == [kind |-> "object", s |-> "", items |-> <<>>]
JArr(items) == [kind |-> "array", s |-> "", items |-> items]

\* Identifiers "id1", "id2", ...
Id(k) == "id" \o ToString(k)

\* The handler never inspects an element, so the inputs are, per length, the
\* array of pairwise distinct identifiers (every position recognisable) and
\* the array that repeats one identifier.
Distinct(n) == [k \in 1..n |-> Id(k)]
Repeated(n) == [k \in 1..n |-> Id(1)]

\* Vec<String> values up to MaxLen.
Inputs == {Distinct(n) : n \in 0..MaxLen} \cup {Repeated(n) : n \in 0..MaxLen}

\* A Vec<String> as the JSON array that encodes it.
ToJson(input) == JArr([k \in 1..Len(input) |-> JStr(input[k])])

WellFormedPayloads == {ToJson(input) : input \in Inputs}
\* Payloads that are not a JSON array of strings.
MalformedPayloads ==
  {JNum, JObj, JStr("id1"), JArr(<<JStr("id1"), JNum>>)}
Payloads == WellFormedPayloads \cup MalformedPayloads

(* ------------------------------- types --------------------------------- *)
\* pub struct Response { chunk1, chunk2 }
Response(c1, c2) == [chunk1 |-> c1, chunk2 |-> c2]
NoResponse == Response(<<>>, <<>>)

\* Result<Response, Error> and the state before the handler returned.
Ok(r) == [tag |-> "Ok", value |-> r]
Err == [tag |-> "Err", value |-> NoResponse]
None == [tag |-> "None", value |-> NoResponse]

\* Variant: a deserializer that accepts any JSON array and reads a non-string
\* item as the empty string.
deserialize_Event_lenient(json) ==
  IF json.kind = "array"
  THEN [ok |-> TRUE, event |-> [k \in 1..Len(json.items) |-> json.items[k].s]]
  ELSE [ok |-> FALSE, event |-> <<>>]

\* pub struct Event(pub Vec<String>): derived Deserialize of a newtype
\* struct around Vec<String>; accepts a JSON array whose items are all
\* strings and yields them in order.
deserialize_Event(json) ==
  IF json.kind = "array" /\ \A k \in 1..Len(json.items) : json.items[k].kind = "string"
  THEN [ok |-> TRUE, event |-> [k \in 1..Len(json.items) |-> json.items[k].s]]
  ELSE [ok |-> FALSE, event |-> <<>>]

(* --------------------------- iterator adaptors -------------------------- *)
\* Variant: the taken elements collected back to front.
RECURSIVE take_rev(_, _)
take_rev(s, n) ==
  IF n = 0 \/ s = <<>> THEN <<>>
  ELSE take_rev(Tail(s), n - 1) \o <<Head(s)>>

\* Variant: an inclusive upper end, the element at index n is taken as well.
RECURSIVE take_incl(_, _)
take_incl(s, n) ==
  IF s = <<>> THEN <<>>
  ELSE IF n = 0 THEN <<Head(s)>>
  ELSE <<Head(s)>> \o take_incl(Tail(s), n - 1)

\* input.iter().take(n).cloned().collect()
RECURSIVE take(_, _)
take(s, n) ==
  IF n = 0 \/ s = <<>> THEN <<>>
  ELSE <<Head(s)>> \o take(Tail(s), n - 1)

\* Variant: one element too many is skipped.
RECURSIVE skip_extra(_, _)
skip_extra(s, n) ==
  IF s = <<>> THEN s
  ELSE IF n = 0 THEN Tail(s)
  ELSE skip_extra(Tail(s), n - 1)

\* input.iter().skip(n).cloned().collect()
RECURSIVE skip(_, _)
skip(s, n) ==
  IF n = 0 \/ s = <<>> THEN s
  ELSE skip(Tail(s), n - 1)

(* ------------------------------ handlers ------------------------------- *)
\* Variant: the midpoint rounded up.
midpoint_ceil(total_items) == (total_items + 1) \div 2

\* let midpoint = total_items / 2;        (usize division truncates)
midpoint(total_items) == total_items \div 2

\* The two info! records of the library handler.
SplittingMsg(total_items) == [msg |-> "Splitting array", a |-> total_items, b |-> 0]
CompleteMsg(len1, len2) == [msg |-> "Split complete", a |-> len1, b |-> len2]
InitializedMsg == [msg |-> "Split Result Lambda function initialized", a |-> 0, b |-> 0]

\* Variant: a handler that rejects the empty array.
function_handler_strict(input) ==
  IF input = <<>> THEN Err
  ELSE LET mid == Len(input) \div 2
       IN  Ok(Response(take(input, mid), skip(input, mid)))

\* split_result::function_handler, the value it returns.
function_handler(input) ==
  LET total_items == Len(input)
      mid == midpoint(total_items)
      chunk1 == take(input, mid)
      chunk2 == skip(input, mid)
  IN  Ok(Response(chunk1, chunk2))

\* split_result::function_handler, the records it hands to info!.
function_handler_info(input) ==
  LET total_items == Len(input)
      mid == midpoint(total_items)
      chunk1 == take(input, mid)
      chunk2 == skip(input, mid)
  IN  <<SplittingMsg(total_items), CompleteMsg(Len(chunk1), Len(chunk2))>>

\* Variant: a copy that drifted from the library and rounds the midpoint up.
test_function_handler_stale(input) ==
  LET mid == (Len(input) + 1) \div 2
  IN  Ok(Response(take(input, mid), skip(input, mid)))

\* The copy of function_handler inside split_result_test.rs (mod split_result):
\* the same statements without the info! calls.
test_function_handler(input) ==
  LET total_items == Len(input)
      mid == total_items \div 2
      chunk1 == take(input, mid)
      chunk2 == skip(input, mid)
  IN  Ok(Response(chunk1, chunk2))

(* ---------------------------- serialization ---------------------------- *)
Quote(s) == "\"" \o s \o "\""

\* serde_json writes a Vec<String> as [ "a" , "b" ].
RECURSIVE serialize_items(_)
serialize_items(v) ==
  IF v = <<>> THEN <<>>
  ELSE IF Len(v) = 1 THEN <<Quote(v[1])>>
  ELSE <<Quote(Head(v)), ",">> \o serialize_items(Tail(v))

serialize_vec(v) == <<"[">> \o serialize_items(v) \o <<"]">>

\* Variant: skip_serializing_if = "Vec::is_empty" on both fields.
serialize_Response_skip_empty(r) ==
  LET f1 == IF r.chunk1 = <<>> THEN <<>>
            ELSE <<Quote("chunk1"), ":">> \o serialize_vec(r.chunk1)
      f2 == IF r.chunk2 = <<>> THEN <<>>
            ELSE <<Quote("chunk2"), ":">> \o serialize_vec(r.chunk2)
      sep == IF f1 # <<>> /\ f2 # <<>> THEN <<",">> ELSE <<>>
  IN  <<"{">> \o f1 \o sep \o f2 \o <<"}">>

\* derive(Serialize) on Response: a struct of two fields, written in
\* declaration order, every field always written.
serialize_Response(r) ==
  <<"{", Quote("chunk1"), ":">> \o serialize_vec(r.chunk1)
    \o <<",", Quote("chunk2"), ":">> \o serialize_vec(r.chunk2) \o <<"}">>

\* serde_json::to_string: the writes, concatenated.
RECURSIVE to_string(_)
to_string(tokens) ==
  IF tokens = <<>> THEN "" ELSE Head(tokens) \o to_string(Tail(tokens))

(* ------------------------------- state --------------------------------- *)
VARIABLES
  host,     \* the process: "lambda" (main.rs), "integration", "unit"
  pc,       \* per invocation: where it is
  payload,  \* per invocation: the JSON value handed in
  event,    \* per invocation: the Event the handler is called with
  result,   \* per invocation: what the handler returned
  output,   \* per invocation: the serialized Response
  polls,    \* per invocation: how often the handler's future was polled
  log       \* what the tracing subscriber of the process received

vars == <<host, pc, payload, event, result, output, polls, log>>

NoPayload == [kind |-> "none", s |-> "", items |-> <<>>]

\* tracing_subscriber::fmt()...init() runs in main only; the test binaries
\* install no subscriber, so info! is dropped there.
subscriber_installed(h) == h = "lambda"

\* info!(...): append to the subscriber when there is one.
info(h, lg, recs) == IF subscriber_installed(h) THEN lg \o recs ELSE lg

\* A process is the Lambda binary (main.rs), the integration-test binary or
\* the unit-test binary. main logs one record after installing the subscriber.
Init ==
  /\ host \in {"lambda", "integration", "unit"}
  /\ pc = [i \in Invs |-> "idle"]
  /\ payload = [i \in Invs |-> NoPayload]
  /\ event = [i \in Invs |-> <<>>]
  /\ result = [i \in Invs |-> None]
  /\ output = [i \in Invs |-> <<>>]
  /\ polls = [i \in Invs |-> 0]
  /\ log = info(host, <<>>, <<InitializedMsg>>)

\* Invocations are numbered in the order in which they arrive.
NextToArrive(i) == pc[i] = "idle" /\ \A j \in Invs : j < i => pc[j] # "idle"

\* The platform (or integration_test.rs, which simulates it) hands a JSON
\* payload to the function.
Invoke(i, p) ==
  /\ host # "unit"
  /\ NextToArrive(i)
  /\ pc' = [pc EXCEPT ![i] = "received"]
  /\ payload' = [payload EXCEPT ![i] = p]
  /\ UNCHANGED <<host, event, result, output, polls, log>>

\* The payload is deserialized into the handler's argument type; on failure
\* the invocation ends with an error and the handler is not called.
Deserialize(i) ==
  /\ pc[i] = "received"
  /\ LET d == deserialize_Event(payload[i])
     IN  IF d.ok
         THEN /\ event' = [event EXCEPT ![i] = d.event]
              /\ pc' = [pc EXCEPT ![i] = "ready"]
              /\ UNCHANGED result
         ELSE /\ pc' = [pc EXCEPT ![i] = "failed"]
              /\ result' = [result EXCEPT ![i] = Err]
              /\ UNCHANGED event
  /\ UNCHANGED <<host, payload, output, polls, log>>

\* split_result_test.rs: LambdaEvent::new(split_result::Event(input), context).
UnitCall(i, input) ==
  /\ host = "unit"
  /\ NextToArrive(i)
  /\ pc' = [pc EXCEPT ![i] = "ready"]
  /\ event' = [event EXCEPT ![i] = input]
  /\ UNCHANGED <<host, payload, result, output, polls, log>>

\* Variant: the midpoint is kept in a static that an earlier invocation set.
HandlerPoll_shared(i) ==
  /\ host # "unit"
  /\ pc[i] = "ready"
  /\ polls' = [polls EXCEPT ![i] = @ + 1]
  /\ pc' = [pc EXCEPT ![i] = "returned"]
  /\ LET earlier == {j \in Invs \ {i} : pc[j] \in {"returned", "done"}}
         mid == IF earlier = {} THEN Len(event[i]) \div 2
                ELSE Len(result[CHOOSE j \in earlier : TRUE].value.chunk1)
     IN  result' = [result EXCEPT ![i] =
                      Ok(Response(take(event[i], mid), skip(event[i], mid)))]
  /\ log' = info(host, log, function_handler_info(event[i]))
  /\ UNCHANGED <<host, payload, event, output>>

\* Variant: the body awaits once (a yield) before it splits.
HandlerPoll_yielding(i) ==
  /\ host # "unit"
  /\ pc[i] \in {"ready", "pending"}
  /\ polls' = [polls EXCEPT ![i] = @ + 1]
  /\ IF pc[i] = "ready"
     THEN /\ pc' = [pc EXCEPT ![i] = "pending"]
          /\ UNCHANGED <<result, log>>
     ELSE /\ pc' = [pc EXCEPT ![i] = "returned"]
          /\ result' = [result EXCEPT ![i] = function_handler(event[i])]
          /\ log' = info(host, log, function_handler_info(event[i]))
  /\ UNCHANGED <<host, payload, event, output>>

\* One poll of the future of split_result::function_handler. The body has no
\* await, so the first poll runs it from its first statement to its return.
HandlerPoll(i) ==
  /\ host # "unit"
  /\ pc[i] = "ready"
  /\ polls' = [polls EXCEPT ![i] = @ + 1]
  /\ pc' = [pc EXCEPT ![i] = "returned"]
  /\ result' = [result EXCEPT ![i] = function_handler(event[i])]
  /\ log' = info(host, log, function_handler_info(event[i]))
  /\ UNCHANGED <<host, payload, event, output>>

\* One poll of the future of the test-local copy of the handler.
TestHandlerPoll(i) ==
  /\ host = "unit"
  /\ pc[i] = "ready"
  /\ polls' = [polls EXCEPT ![i] = @ + 1]
  /\ pc' = [pc EXCEPT ![i] = "returned"]
  /\ result' = [result EXCEPT ![i] = test_function_handler(event[i])]
  /\ UNCHANGED <<host, payload, event, output, log>>

\* The returned Response is serialized to JSON (the runtime in main.rs,
\* serde_json::to_string in integration_test.rs); an Err is reported instead.
Serialize(i) ==
  /\ host # "unit"
  /\ pc[i] = "returned"
  /\ IF result[i].tag = "Ok"
     THEN /\ output' = [output EXCEPT ![i] = serialize_Response(result[i].value)]
          /\ pc' = [pc EXCEPT ![i] = "done"]
     ELSE /\ pc' = [pc EXCEPT ![i] = "failed"]
          /\ UNCHANGED output
  /\ UNCHANGED <<host, payload, event, result, polls, log>>

Next ==
  \/ \E i \in Invs, p \in Payloads : Invoke(i, p)
  \/ \E i \in Invs : Deserialize(i)
  \/ \E i \in Invs, input \in Inputs : UnitCall(i, input)
  \/ \E i \in Invs : HandlerPoll(i)
  \/ \E i \in Invs : TestHandlerPoll(i)
  \/ \E i \in Invs : Serialize(i)

Spec == Init /\ [][Next]_vars

\* The executor does not leave a future that is ready to run unpolled forever.
FairSpec ==
  Spec /\ WF_vars(\E i \in Invs : HandlerPoll(i) \/ TestHandlerPoll(i))

(* ------------------------------ properties ----------------------------- *)
\* The handler of invocation i has returned.
Returned(i) == polls[i] > 0 /\ pc[i] \in {"returned", "done", "failed"}

\* C1: the returned chunk1 is exactly the elements of the input at indices
\* 0 .. floor(len/2)-1 in their order, and chunk2 exactly those at indices
\* floor(len/2) .. len-1 in their order.
C1_ChunksAreTheTwoHalves ==
  \A i \in Invs :
    Returned(i) =>
      LET S == event[i]
          m == Len(S) \div 2
          r == result[i].value
      IN  /\ DOMAIN r.chunk1 = 1..m
          /\ \A k \in 1..m : r.chunk1[k] = S[k]
          /\ DOMAIN r.chunk2 = 1..(Len(S) - m)
          /\ \A k \in 1..(Len(S) - m) : r.chunk2[k] = S[m + k]

\* The library handler has split an array of at least four distinct elements.
C1_Witness ==
  \E i \in Invs :
    /\ host = "lambda"
    /\ Returned(i)
    /\ Len(event[i]) >= 4
    /\ event[i] = Distinct(Len(event[i]))
    /\ Len(result[i].value.chunk1) >= 2

\* C2: chunk1 followed by chunk2 reproduces the input exactly, also when
\* identifiers repeat.
C2_ConcatenationReproducesInput ==
  \A i \in Invs :
    Returned(i) => result[i].value.chunk1 \o result[i].value.chunk2 = event[i]

\* An array with a repeated identifier has been split into two nonempty chunks.
C2_Witness ==
  \E i \in Invs :
    /\ Returned(i)
    /\ Len(event[i]) >= 3
    /\ event[i] = Repeated(Len(event[i]))
    /\ result[i].value.chunk1 # <<>>
    /\ result[i].value.chunk2 # <<>>

\* C3: chunk1 has floor(len/2) elements; for an even length both chunks are
\* equally long, for an odd length chunk2 is exactly one longer.
C3_FirstChunkIsFloorHalf ==
  \A i \in Invs :
    Returned(i) =>
      LET n == Len(event[i])
          l1 == Len(result[i].value.chunk1)
          l2 == Len(result[i].value.chunk2)
      IN  /\ l1 = n \div 2
          /\ n % 2 = 0 => l1 = l2
          /\ n % 2 = 1 => l2 = l1 + 1

\* One array of odd length and one of even length have been split.
C3_Witness ==
  \E i, j \in Invs :
    /\ Returned(i) /\ Len(event[i]) = 5 /\ Len(result[i].value.chunk2) = 3
    /\ Returned(j) /\ Len(event[j]) = 4 /\ Len(result[j].value.chunk2) = 2

\* C4: the lengths of the two chunks add up to the length of the input, for
\* the empty and the one-element array too.
C4_LengthsAddUp ==
  \A i \in Invs :
    Returned(i) =>
      Len(result[i].value.chunk1) + Len(result[i].value.chunk2) = Len(event[i])

\* The empty array and a one-element array have been split.
C4_Witness ==
  \E i, j \in Invs :
    /\ Returned(i) /\ event[i] = <<>>
    /\ Returned(j) /\ Len(event[j]) = 1 /\ Len(result[j].value.chunk2) = 1

\* C5: the handler returns Ok for every input, the empty and the one-element
\* array included; it never returns Err.
C5_HandlerNeverErrs ==
  \A i \in Invs : Returned(i) => result[i].tag = "Ok"

\* The library handler has returned for the empty and for a one-element array.
C5_Witness ==
  \E i, j \in Invs :
    /\ host # "unit"
    /\ Returned(i) /\ event[i] = <<>> /\ result[i].tag = "Ok"
    /\ Returned(j) /\ Len(event[j]) = 1 /\ result[j].tag = "Ok"

\* The keys of a serialized object, in the order written: the tokens that a
\* colon follows.
RECURSIVE KeysFrom(_, _)
KeysFrom(tokens, k) ==
  IF k >= Len(tokens) THEN <<>>
  ELSE IF tokens[k + 1] = ":" THEN <<tokens[k]>> \o KeysFrom(tokens, k + 1)
  ELSE KeysFrom(tokens, k + 1)

\* C6: the serialized Response has exactly the keys chunk1 and chunk2, in
\* that order, for every input; the empty input gives {"chunk1":[],"chunk2":[]}
\* with no key left out, and the five-element input of integration_test.rs
\* gives the text expected there.
C6_SerializedKeys ==
  \A i \in Invs :
    pc[i] = "done" =>
      /\ KeysFrom(output[i], 1) = <<"\"chunk1\"", "\"chunk2\"">>
      /\ event[i] = <<>> => to_string(output[i]) = "{\"chunk1\":[],\"chunk2\":[]}"
      /\ event[i] = <<"id1", "id2", "id3", "id4", "id5">> =>
           to_string(output[i])
             = "{\"chunk1\":[\"id1\",\"id2\"],\"chunk2\":[\"id3\",\"id4\",\"id5\"]}"

\* The Response of the empty input and of the five-element input have been
\* serialized.
C6_Witness ==
  \E i, j \in Invs :
    /\ pc[i] = "done" /\ event[i] = <<>> /\ output[i] # <<>>
    /\ pc[j] = "done" /\ Len(event[j]) = 5 /\ event[j] = Distinct(5)

\* The handler of invocation i has been called.
Entered(i) == pc[i] \in {"ready", "pending", "returned", "done"} \/ polls[i] > 0

\* C7: where payloads arrive as JSON, the handler is entered only with the
\* Event that a JSON array of strings deserialized into; an invocation whose
\* payload is anything else ends as an error, its handler never polled and no
\* Response written.
C7_MalformedPayloadRejected ==
  host # "unit" =>
    \A i \in Invs :
      /\ Entered(i) => \E input \in Inputs : payload[i] = ToJson(input) /\ event[i] = input
      /\ (payload[i] \in MalformedPayloads /\ pc[i] # "received") =>
           /\ pc[i] = "failed"
           /\ result[i] = Err
           /\ polls[i] = 0
           /\ output[i] = <<>>

\* A malformed payload has been rejected while another invocation of the same
\* process ran its handler on a nonempty array.
C7_Witness ==
  \E i, j \in Invs :
    /\ host = "lambda"
    /\ payload[i] \in MalformedPayloads /\ pc[i] = "failed"
    /\ Returned(j) /\ event[j] # <<>>

\* What the handler returns for S when nothing else runs.
AloneResponse(S) ==
  Ok(Response(SubSeq(S, 1, Len(S) \div 2), SubSeq(S, Len(S) \div 2 + 1, Len(S))))

\* A step of one invocation leaves everything that belongs to another alone.
OwnStateOnly ==
  \A i, j \in Invs :
    (i # j /\ pc'[i] # pc[i]) =>
      /\ pc'[j] = pc[j]
      /\ payload'[j] = payload[j]
      /\ event'[j] = event[j]
      /\ result'[j] = result[j]
      /\ output'[j] = output[j]
      /\ polls'[j] = polls[j]

\* C8: with several invocations in flight, under every interleaving, each
\* returned Response is the one its own payload gives when run alone, and no
\* step of an invocation changes what belongs to another.
C8_InvocationsIndependent ==
  /\ [](\A i \in Invs : Returned(i) => result[i] = AloneResponse(event[i]))
  /\ [][OwnStateOnly]_vars

\* Two invocations with arrays of different length have both returned, the
\* second one after the first.
C8_Witness ==
  \E i, j \in Invs :
    /\ i # j
    /\ Returned(i) /\ Returned(j)
    /\ Len(event[i]) = 5 /\ Len(event[j]) = 2
    /\ Len(log) = 5

\* C9: the library handler, with or without a subscriber for its two info!
\* records, returns the Response that the log-free copy in
\* split_result_test.rs returns for the same input, and the copy returns the
\* Response of the library handler.
C9_LoggingDoesNotChangeResult ==
  \A i \in Invs :
    Returned(i) =>
      IF host = "unit"
      THEN result[i] = function_handler(event[i])
      ELSE result[i] = test_function_handler(event[i])

\* The library handler has returned for an array of odd length and its two
\* records have reached the subscriber.
C9_Witness ==
  \E i \in Invs :
    /\ host = "lambda"
    /\ Returned(i)
    /\ Len(event[i]) = 3
    /\ Len(log) >= 3
    /\ log[Len(log)] = CompleteMsg(1, 2)

\* C10: an invocation whose handler was called eventually has an Ok Response
\* (it does not wait for a poll forever, and the step that ends the wait
\* makes it "returned" with Ok), and the handler gets there in its first
\* poll: between the call and the return there is no state, it is never
\* pending and never polled twice.
C10_CompletesWithoutSuspending ==
  /\ \A i \in Invs : []<>(pc[i] # "ready")
  /\ [][\A i \in Invs :
          (pc[i] = "ready" /\ pc'[i] # "ready") =>
            (pc'[i] = "returned" /\ polls'[i] = 1 /\ result'[i].tag = "Ok")]_vars
  /\ [](\A i \in Invs : pc[i] # "pending" /\ polls[i] <= 1)

\* A handler has returned after one poll while another invocation is waiting
\* for its first poll.
C10_Witness ==
  \E i, j \in Invs :
    /\ pc[i] = "returned" /\ polls[i] = 1 /\ result[i].tag = "Ok"
    /\ pc[j] = "ready" /\ polls[j] = 0

====
